---------------------------- MODULE Spec2Model ----------------------------
(***************************************************************************)
(* A model of sksurgerybk/interface/bk5000.py: the BK5000 class, a TCP     *)
(* client of the BK ultrasound scanner.                                    *)
(*                                                                         *)
(* Bytes are the integers 0..255.  A bytearray, a bytes object and a       *)
(* one-dimensional uint8 array are sequences of bytes; the source indexes  *)
(* them from 0, so index i of the source is element i + 1 here (At).       *)
(*                                                                         *)
(* np_buffer is what the source makes it: a view of the storage of buffer  *)
(* (np.frombuffer, then a slice of it).  It is modelled as the pair of     *)
(* offsets <<lo, hi>> of the bytes buffer[lo:hi] it shows, so that a write *)
(* through np_buffer is a write to buffer.  The bytearray may be resized   *)
(* while the view exists (numpy releases the export, as it did when the    *)
(* source was written); the source never reads a view after a resize.      *)
(*                                                                         *)
(* A call that raises leaves in ret the exception's name and in the other  *)
(* variables what the source had assigned before the raise.                *)
(***************************************************************************)
EXTENDS Integers, Sequences, FiniteSets, TLC

VARIABLES
    socket,                  \* self.socket: "fresh", "connected" or "closed"
    data,                    \* self.data: the last response, without terminators
    request_stop_streaming,  \* self.request_stop_streaming
    is_streaming,            \* self.is_streaming
    image_size,              \* self.image_size: a list of integers
    pixels_in_image,         \* self.pixels_in_image
    buffer,                  \* self.buffer: the bytearray of received bytes
    np_buffer,               \* self.np_buffer: <<lo, hi>>, a view of buffer
    img,                     \* self.img: a sequence of rows
    result,                  \* what decode_image last returned
    ret,                     \* the last call: its name, inputs and outcome
    peer,                    \* the scanner: what it sends and has yet to send
    hist                     \* the calls that have succeeded so far

vars == <<socket, data, request_stop_streaming, is_streaming, image_size,
          pixels_in_image, buffer, np_buffer, img, result, ret, peer, hist>>

----------------------------------------------------------------------------
(* Bytes of the protocol *)

\* control_bits[0]: start of message
SOH == 1
\* control_bits[1]: end of message
EOT == 4
\* control_bits[2]: decimal 27, the byte that precedes a flipped control byte
ESC == 27
\* the byte receive_image passes as b: the literal 0x27
NOT_PRECEDED_BY == 39
\* ord('#')
HASH == 35
\* ord('0')
ORD_ZERO == 48
\* the mask of the flip, 0xFF
MASK == 255

control_bits == <<SOH, EOT, ESC>>

\* bit ^ 0xFF for a byte
Flip(bit) == MASK - bit

flipped_control_bits == [i \in 1..3 |-> Flip(control_bits[i])]

\* "DATA:GRAB_FRAME".encode('utf-8')
img_msg == <<68, 65, 84, 65, 58, 71, 82, 65, 66, 95, 70, 82, 65, 77, 69>>

----------------------------------------------------------------------------
(* Python's sequences *)

Min(S) == CHOOSE x \in S : \A y \in S : x <= y

Max(S) == CHOOSE x \in S : \A y \in S : x >= y

\* s[i], i >= 0
At(s, i) == s[i + 1]

\* A slice bound as Python clamps it for a sequence of length n
Clamp(n, i) == IF i < 0 THEN Max({i + n, 0}) ELSE Min({i, n})

\* s[lo:hi]
PySlice(s, lo, hi) ==
    LET l == Clamp(Len(s), lo)
        h == Clamp(Len(s), hi)
    IN  IF l < h THEN SubSeq(s, l + 1, h) ELSE <<>>

\* s[lo:]
PySliceFrom(s, lo) == PySlice(s, lo, Len(s))

\* s[:hi]
PySliceTo(s, hi) == PySlice(s, 0, hi)

\* bytearray.find(sub, start), start >= 0
Find(s, sub, start) ==
    LET hits == {i \in start..(Len(s) - Len(sub)) :
                    SubSeq(s, i + 1, i + Len(sub)) = sub}
    IN  IF hits = {} THEN -1 ELSE Min(hits)

\* The bytes a view <<lo, hi>> shows
View(buf, v) == SubSeq(buf, v[1] + 1, v[2])

\* The view one byte longer at its front: np_buffer[lo - 1:hi]
SliceView_from_previous(v, lo, hi) ==
    LET n == v[2] - v[1]
        l == Clamp(n, lo - 1)
        h == Clamp(n, hi)
    IN  IF l < h THEN <<v[1] + l, v[1] + h>> ELSE <<v[1] + l, v[1] + l>>

\* The view np_buffer[lo:hi] of a view
SliceView(v, lo, hi) ==
    LET n == v[2] - v[1]
        l == Clamp(n, lo)
        h == Clamp(n, hi)
    IN  IF l < h THEN <<v[1] + l, v[1] + h>> ELSE <<v[1] + l, v[1] + l>>

----------------------------------------------------------------------------
(* The byte-stuffing codec *)

\* find_first_a_not_preceded_by_b on the bytes v that np_buffer shows.
\* exc is "IndexError" when trimmed_buffer[0] does not exist.
find_first_a_not_preceded_by_b(v, start_pos, a, b) ==
    LET trimmed_buffer == PySliceFrom(v, start_pos)
        a_idx == {i \in 0..(Len(trimmed_buffer) - 1) : At(trimmed_buffer, i) = a}
        not_b_idx == {i \in a_idx : At(trimmed_buffer, i - 1) # b}
    IN  IF Len(trimmed_buffer) = 0
        THEN [exc |-> "IndexError", found |-> -1]
        ELSE IF At(trimmed_buffer, 0) = a
        THEN [exc |-> "none", found |-> 0]
        ELSE IF not_b_idx # {}
        THEN [exc |-> "none", found |-> start_pos + Min(not_b_idx)]
        ELSE [exc |-> "none", found |-> -1]

\* clear_bytes_in_buffer: del buffer[start:end], end cut to the length
clear_bytes_in_buffer(buf, start, end) ==
    LET e == IF end >= Len(buf) THEN Len(buf) ELSE end
    IN  IF start < e
        THEN PySliceTo(buf, start) \o PySliceFrom(buf, e)
        ELSE buf

\* np.where(np_buffer == 27)
uc27_idx(v) == {i \in 0..(Len(v) - 1) : At(v, i) = control_bits[3]}

\* The indices decode_image collects: each 27 followed by a flipped control bit
idx_to_del(v) ==
    {i \in uc27_idx(v) :
        i + 1 < Len(v) /\ \E k \in 1..3 : At(v, i + 1) = flipped_control_bits[k]}

\* np.delete(v, idx): v without the elements at the indices idx
Delete(v, idx) ==
    LET F[n \in 0..Len(v)] ==
            IF n = 0 THEN <<>>
            ELSE IF (n - 1) \in idx THEN F[n - 1]
            ELSE Append(F[n - 1], v[n])
    IN  F[Len(v)]

\* decode_image on the bytes v that np_buffer shows: the returned array
\* (result) and what the flip leaves in the viewed storage (flipped).
\* np_buffer[uc27_idx + 1] raises IndexError when the last byte is a 27.
decode_image(v) ==
    LET del == idx_to_del(v)
        flipped == [n \in 1..Len(v) |->
                       IF (n - 2) \in del THEN Flip(v[n]) ELSE v[n]]
    IN  IF \E i \in uc27_idx(v) : i + 1 >= Len(v)
        THEN [exc |-> "IndexError", result |-> <<>>, flipped |-> v]
        ELSE [exc |-> "none", result |-> Delete(flipped, del), flipped |-> flipped]

\* buf with the bytes that the view <<lo, hi>> shows replaced by w
WriteView(buf, v, w) ==
    [n \in 1..Len(buf) |->
        IF v[1] < n /\ n <= v[2] THEN w[n - v[1]] ELSE buf[n]]

----------------------------------------------------------------------------
(* The image frame scanner *)

\* a.reshape(rows, cols) of a one-dimensional array: the rows, or ValueError.
\* One dimension may be -1: numpy infers it from the size and the other one.
reshape(a, rows, cols) ==
    LET n == Len(a)
        grid(r, c) == [exc |-> "none",
                       img |-> [i \in 1..r |-> SubSeq(a, (i - 1) * c + 1, i * c)]]
        bad == [exc |-> "ValueError", img |-> <<>>]
    IN  IF rows < -1 \/ cols < -1 \/ (rows = -1 /\ cols = -1) THEN bad
        ELSE IF rows = -1
        THEN IF cols > 0 /\ n % cols = 0 THEN grid(n \div cols, cols) ELSE bad
        ELSE IF cols = -1
        THEN IF rows > 0 /\ n % rows = 0 THEN grid(rows, n \div rows) ELSE bad
        ELSE IF rows * cols = n THEN grid(rows, cols) ELSE bad

\* What a call of receive_image leaves: the exception raised ("none" when it
\* returns), the value returned, the source line of the return or raise,
\* and the attributes as the call leaves them.
Outcome(exc, valid_frame, line, buf, view, decoded, image) ==
    [exc |-> exc, valid_frame |-> valid_frame, line |-> line, buffer |-> buf,
     np_buffer |-> view, decoded |-> decoded, img |-> image]

\* receive_image with self.buffer = buf, self.image_size = size,
\* self.pixels_in_image = pixels and self.img = image
receive_image(buf, size, pixels, image) ==
    LET whole == <<0, Len(buf)>>
        first == find_first_a_not_preceded_by_b(buf, 0, SOH, NOT_PRECEDED_BY)
        msg_start_idx == first.found
        msg_end_idx ==
            find_first_a_not_preceded_by_b(
                buf, msg_start_idx, EOT, NOT_PRECEDED_BY).found
        img_msg_index == Find(buf, img_msg, msg_start_idx)
        hash_char == Find(buf, <<HASH>>, msg_start_idx)
        size_of_data_char == hash_char + 1
        start_image_char ==
            size_of_data_char + 1 + 4 + At(buf, size_of_data_char) - ORD_ZERO
        end_image_char == msg_end_idx - 2
        window == SliceView(whole, start_image_char, end_image_char + 1)
        dec == decode_image(View(buf, window))
        flipped == WriteView(buf, window, dec.flipped)
        shaped == reshape(PySliceTo(dec.result, pixels), size[2], size[1])
    IN  IF first.exc # "none"
        THEN Outcome("IndexError", FALSE, 214, buf, whole, <<>>, image)
        ELSE IF msg_start_idx < 0
        THEN Outcome("none", FALSE, 297, <<>>, whole, <<>>, image)
        ELSE IF msg_end_idx <= msg_start_idx
        THEN Outcome("none", FALSE, 305, buf, whole, <<>>, image)
        ELSE IF ~(img_msg_index # -1
                  /\ msg_start_idx < img_msg_index /\ img_msg_index < msg_end_idx)
        THEN Outcome("none", FALSE, 322,
                     clear_bytes_in_buffer(buf, 0, msg_end_idx + 1),
                     whole, <<>>, image)
        ELSE IF size_of_data_char >= Len(buf)
        THEN Outcome("IndexError", FALSE, 330, buf, whole, <<>>, image)
        ELSE IF dec.exc # "none"
        THEN Outcome("IndexError", FALSE, 267, buf, window, <<>>, image)
        ELSE IF Len(size) < 2
        THEN Outcome("IndexError", FALSE, 339, flipped, window, dec.result, image)
        ELSE IF shaped.exc # "none"
        THEN Outcome("ValueError", FALSE, 338, flipped, window, dec.result, image)
        ELSE Outcome("none", TRUE, 345,
                     clear_bytes_in_buffer(flipped, 0, msg_end_idx + 1),
                     window, dec.result, shaped.img)

----------------------------------------------------------------------------
(* The command channel.  Text is a sequence of ASCII codes. *)

\* packet_size
PACKET_SIZE == 1024
\* The default expected_size of receive_response_message
EXPECTED_SIZE == 1024
\* The expected_size query_win_size passes
WIN_SIZE_EXPECTED_SIZE == 25
\* FPS of the module's main block: the frames_per_second of the session
FPS == 25

\* str(n) of an integer: its decimal digits, '-' first when negative
RECURSIVE DecimalText(_)
DecimalText(n) ==
    IF n < 0 THEN <<45>> \o DecimalText(0 - n)
    ELSE IF n < 10 THEN <<ORD_ZERO + n>>
    ELSE Append(DecimalText(n \div 10), ORD_ZERO + (n % 10))

\* "QUERY:US_WIN_SIZE;"
query_win_size_message ==
    <<81, 85, 69, 82, 89, 58, 85, 83, 95, 87, 73, 78, 95, 83, 73, 90, 69, 59>>

\* 'QUERY:GRAB_FRAME "OFF",{:};'.format(frames_per_second)
stop_message ==
    <<81, 85, 69, 82, 89, 58, 71, 82, 65, 66, 95, 70, 82, 65, 77, 69, 32,
      34, 79, 70, 70, 34, 44>> \o DecimalText(FPS) \o <<59>>

\* 'QUERY:GRAB_FRAME "ON",{:};'.format(frames_per_second)
start_message ==
    <<81, 85, 69, 82, 89, 58, 71, 82, 65, 66, 95, 70, 82, 65, 77, 69, 32,
      34, 79, 78, 34, 44>> \o DecimalText(FPS) \o <<59>>

\* generate_command_message: 0x01, the message, 0x04
generate_command_message(message) == <<SOH>> \o message \o <<EOT>>

\* send_command_message on a socket in state sock, when socket.send reports
\* bytes_sent bytes (-1: it raises socket.error)
send_command_message(sock, message, bytes_sent) ==
    LET message_to_send == generate_command_message(message)
    IN  IF sock # "connected" \/ bytes_sent < 0 THEN [exc |-> "IOError", is_ok |-> FALSE]
        ELSE IF bytes_sent # Len(message_to_send)
        THEN [exc |-> "IOError", is_ok |-> FALSE]
        ELSE [exc |-> "none", is_ok |-> TRUE]

\* socket.recv that returns all pending bytes, whatever max_bytes is
recv_unbounded(sock, pending, eof, max_bytes) ==
    IF sock # "connected" THEN [exc |-> "OSError", bytes |-> <<>>, rest |-> pending]
    ELSE IF pending = <<>> /\ ~eof
    THEN [exc |-> "timeout", bytes |-> <<>>, rest |-> pending]
    ELSE [exc |-> "none", bytes |-> pending, rest |-> <<>>]

\* socket.recv(max_bytes) with the bytes pending in flight: it raises on a
\* socket that is not connected and when nothing arrives before the timeout,
\* and returns no bytes when the scanner has closed the connection (eof)
recv(sock, pending, eof, max_bytes) ==
    IF sock # "connected" THEN [exc |-> "OSError", bytes |-> <<>>, rest |-> pending]
    ELSE IF pending = <<>> /\ ~eof
    THEN [exc |-> "timeout", bytes |-> <<>>, rest |-> pending]
    ELSE [exc |-> "none", bytes |-> PySliceTo(pending, max_bytes),
          rest |-> PySliceFrom(pending, max_bytes)]

\* receive_response_message(expected_size): data is what was received
\* without its first and last byte
receive_response_message(sock, pending, eof, expected_size, old_data) ==
    LET actual_size == expected_size + 2
        got == recv(sock, pending, eof, actual_size)
        data_with_terminators == got.bytes
        new_data == PySlice(data_with_terminators, 1, -1)
    IN  IF got.exc # "none"
        THEN [exc |-> got.exc, is_ok |-> FALSE, data |-> old_data, rest |-> got.rest]
        ELSE IF Len(new_data) > expected_size
        THEN [exc |-> "IOError", is_ok |-> FALSE, data |-> new_data, rest |-> got.rest]
        ELSE [exc |-> "none", is_ok |-> TRUE, data |-> new_data, rest |-> got.rest]

\* The characters str.split() splits on
Whitespace == {9, 10, 11, 12, 13, 28, 29, 30, 31, 32}

\* The k-th smallest element of a set of integers
Nth(S, k) == CHOOSE x \in S : Cardinality({y \in S : y < x}) = k - 1

\* message.split(): the maximal runs of characters that are not whitespace
split(message) ==
    LET starts == {i \in 1..Len(message) :
                      /\ message[i] \notin Whitespace
                      /\ (i = 1 \/ message[i - 1] \in Whitespace)}
        ends == {i \in 1..Len(message) :
                    /\ message[i] \notin Whitespace
                    /\ (i = Len(message) \/ message[i + 1] \in Whitespace)}
    IN  [k \in 1..Cardinality(starts) |->
            SubSeq(message, Nth(starts, k), Nth(ends, k))]

\* text.strip(chars) for one character
strip(text, char) ==
    LET keep == {i \in 1..Len(text) : text[i] # char}
    IN  IF keep = {} THEN <<>> ELSE SubSeq(text, Min(keep), Max(keep))

\* text.split(sep) for one character: one more part than separators
split_on(text, sep) ==
    LET seps == {i \in 1..Len(text) : text[i] = sep}
        cut(k) == IF k = 0 THEN 0
                  ELSE IF k > Cardinality(seps) THEN Len(text) + 1
                  ELSE Nth(seps, k)
    IN  [k \in 1..(Cardinality(seps) + 1) |->
            SubSeq(text, cut(k - 1) + 1, cut(k) - 1)]

\* int(text): an optional sign, then digits, single underscores between
\* digits allowed; anything else is a ValueError
int(text) ==
    LET signed == text # <<>> /\ text[1] \in {43, 45}
        body == IF signed THEN Tail(text) ELSE text
        digit(c) == c \in ORD_ZERO..(ORD_ZERO + 9)
        wellformed ==
            /\ body # <<>>
            /\ \A i \in 1..Len(body) :
                \/ digit(body[i])
                \/ /\ body[i] = 95
                   /\ 1 < i /\ i < Len(body)
                   /\ digit(body[i - 1]) /\ digit(body[i + 1])
        V[n \in 0..Len(body)] ==
            IF n = 0 THEN 0
            ELSE IF body[n] = 95 THEN V[n - 1]
            ELSE 10 * V[n - 1] + (body[n] - ORD_ZERO)
        magnitude == V[Len(body)]
    IN  IF ~wellformed THEN [exc |-> "ValueError", value |-> 0]
        ELSE [exc |-> "none",
              value |-> IF signed /\ text[1] = 45 THEN 0 - magnitude ELSE magnitude]

\* parse_win_size_message: the attributes it leaves and the exception raised
parse_win_size_message(message, old_size, old_pixels) ==
    LET tokens == split(message)
        dim_part_of_message == split_on(strip(tokens[Len(tokens)], 59), 44)
        parsed == [i \in 1..Len(dim_part_of_message) |-> int(dim_part_of_message[i])]
        new_size == [i \in 1..Len(parsed) |-> parsed[i].value]
    IN  IF tokens = <<>>
        THEN [exc |-> "IndexError", image_size |-> old_size,
              pixels_in_image |-> old_pixels]
        ELSE IF \E i \in 1..Len(parsed) : parsed[i].exc # "none"
        THEN [exc |-> "ValueError", image_size |-> old_size,
              pixels_in_image |-> old_pixels]
        ELSE IF Len(new_size) < 2
        THEN [exc |-> "IndexError", image_size |-> new_size,
              pixels_in_image |-> old_pixels]
        ELSE [exc |-> "none", image_size |-> new_size,
              pixels_in_image |-> new_size[1] * new_size[2]]

----------------------------------------------------------------------------
(* Bounds and input sets *)

\* The longest array the codec is called on
MaxCodecLen == 3
\* The longest buffer drawn byte by byte for receive_image
MaxScanLen == 4
\* The longest body drawn between the image tag and the end marker
MaxBody == 4
\* The most pixels (width * height) of a frame the scanner sends
MaxPixels == 4

\* All sequences over S of length at most n
SeqsUpTo(S, n) == UNION {[1..k -> S] : k \in 0..n}

CodecBytes == {SOH, EOT, ESC, NOT_PRECEDED_BY, 10} \cup
              {flipped_control_bits[k] : k \in 1..3}

ScanBytes == {SOH, EOT, ESC, NOT_PRECEDED_BY, HASH, 65}

BodyBytes == {HASH, ORD_ZERO, ESC, Flip(SOH), 10}

PixelBytes == {SOH, EOT, ESC, 10}

\* The most bytes left in flight when the scanner sends a reply
MaxPending == 1

\* The numbers the scanner puts in a window size response
WinSizes == {<<640, 480>>, <<2, 2>>, <<1024, 768>>, <<0, 480>>, <<2, -3>>,
             <<5>>, <<1, 2, 3>>}

\* "DATA:US_WIN_SIZE w,h;" for a list of numbers
WinSizeText(nums) ==
    LET F[n \in 1..Len(nums)] ==
            IF n = 1 THEN DecimalText(nums[1])
            ELSE F[n - 1] \o <<44>> \o DecimalText(nums[n])
    IN  <<68, 65, 84, 65, 58, 85, 83, 95, 87, 73, 78, 95, 83, 73, 90, 69, 32>>
            \o F[Len(nums)] \o <<59>>

\* What the scanner may answer to the window size query: nothing, a window
\* size response, "ERROR;", or an empty message
QueryReplies ==
    {<<>>, <<SOH, EOT>>, <<SOH, 69, 82, 82, 79, 82, 59, EOT>>}
        \cup {<<SOH>> \o WinSizeText(nums) \o <<EOT>> : nums \in WinSizes}

\* What the scanner may answer to a command: nothing, or the command echoed
AckReplies(message) == {<<>>, generate_command_message(message)}

\* The reply in flight after the pending bytes: none while more than
\* MaxPending - 1 bytes are still unread
Pending(in_flight, reply) ==
    IF Len(in_flight) < MaxPending THEN in_flight \o reply ELSE in_flight

\* Values of header, fixed and trailing bytes: none is 0x01, 0x04 or 0x1B
FramingBytes == {0, NOT_PRECEDED_BY, Flip(EOT)}

\* The result of a call, as the model records it
Ret(op, exc, val, found, line, args, pre) ==
    [op |-> op, exc |-> exc, val |-> val, found |-> found, line |-> line,
     args |-> args, pre |-> pre]

NoCall == Ret("init", "none", FALSE, -1, 0, <<>>, <<>>)

NoPeer == [stream |-> <<>>, frame |-> <<>>, pixels |-> <<>>, width |-> 0,
           height |-> 0, bytewise |-> FALSE]

NoHist == [last |-> "none", stop_requested |-> FALSE, queried |-> FALSE,
           connected |-> FALSE]

----------------------------------------------------------------------------
(* The scanner's side of the wire *)

\* The escaping rule: a control byte is sent as 0x1B and its complement
Escape(pixels) ==
    LET F[n \in 0..Len(pixels)] ==
            IF n = 0 THEN <<>>
            ELSE IF \E k \in 1..3 : pixels[n] = control_bits[k]
            THEN F[n - 1] \o <<ESC, Flip(pixels[n])>>
            ELSE Append(F[n - 1], pixels[n])
    IN  F[Len(pixels)]

\* One image frame: 0x01, the tag, header bytes, '#', one ASCII digit d,
\* 4 fixed bytes, d length digits, the escaped pixels, 2 trailing bytes, 0x04
ImageFrame(header, fixed, digits, pixels, trailing) ==
    <<SOH>> \o img_msg \o header \o <<HASH, ORD_ZERO + Len(digits)>> \o fixed
        \o digits \o Escape(pixels) \o trailing \o <<EOT>>

\* The frames drawn: every pixel sequence in a plain framing, and every
\* framing around the pixels 10, 20, ...
Frames ==
    LET plain == [header |-> <<>>, fixed |-> <<0, 0, 0, 0>>,
                  digits |-> <<ORD_ZERO + 1>>, trailing |-> <<0, 0>>]
        ramp(n) == [i \in 1..n |-> 10 * i]
        sizes == {g \in (1..MaxPixels) \X (1..MaxPixels) : g[1] * g[2] <= MaxPixels}
    IN  UNION {{[width |-> g[1], height |-> g[2], pixels |-> px,
                     framing |-> plain] : px \in [1..(g[1] * g[2]) -> PixelBytes]} :
                   g \in sizes}
        \cup
        {[width |-> g[1], height |-> g[2], pixels |-> ramp(g[1] * g[2]),
          framing |-> [header |-> hd, fixed |-> <<fx, fx, fx, fx>>,
                       digits |-> dg, trailing |-> <<t1, t2>>]] :
            g \in {<<1, 1>>, <<2, 2>>}, hd \in SeqsUpTo(FramingBytes, 1),
            fx \in FramingBytes, dg \in SeqsUpTo({ORD_ZERO + 1}, 1),
            t1 \in FramingBytes, t2 \in FramingBytes}

----------------------------------------------------------------------------
(* The state after __init__, and the calls *)

\* __init__: the attributes of a new object
Constructed ==
    /\ socket = "fresh"
    /\ data = <<>>
    /\ request_stop_streaming = FALSE
    /\ is_streaming = FALSE
    /\ image_size = <<0, 0>>
    /\ pixels_in_image = 0
    /\ buffer = <<>>
    /\ np_buffer = <<0, 0>>
    /\ img = <<>>
    /\ result = <<>>
    /\ ret = NoCall
    /\ hist = NoHist

\* A call of decode_image on the array np_buffer shows
DecodeImage ==
    /\ ret.op = "init"
    /\ \E out \in {decode_image(View(buffer, np_buffer))} :
           /\ buffer' = WriteView(buffer, np_buffer, out.flipped)
           /\ result' = out.result
           /\ ret' = Ret("decode_image", out.exc, out.exc = "none", -1,
                         IF out.exc = "none" THEN 275 ELSE 267, <<>>,
                         View(buffer, np_buffer))
    /\ UNCHANGED <<socket, data, request_stop_streaming, is_streaming,
                   image_size, pixels_in_image, np_buffer, img, peer, hist>>

\* A call of find_first_a_not_preceded_by_b(start_pos, a, b)
FindFirst ==
    /\ ret.op = "init"
    /\ \E start_pos \in 0..Len(buffer), a \in {SOH, EOT},
          b \in {ESC, NOT_PRECEDED_BY} :
        \E out \in {find_first_a_not_preceded_by_b(
                        View(buffer, np_buffer), start_pos, a, b)} :
            ret' = Ret("find_first_a_not_preceded_by_b", out.exc,
                       out.exc = "none", out.found,
                       IF out.exc = "none" THEN 228 ELSE 214,
                       <<start_pos, a, b>>, View(buffer, np_buffer))
    /\ UNCHANGED <<socket, data, request_stop_streaming, is_streaming,
                   image_size, pixels_in_image, buffer, np_buffer, img, result,
                   peer, hist>>

\* A call of receive_image
ReceiveImage ==
    /\ ret.op \in {"init", "recv"}
    /\ \E out \in {receive_image(buffer, image_size, pixels_in_image, img)} :
           /\ buffer' = out.buffer
           /\ np_buffer' = out.np_buffer
           /\ img' = out.img
           /\ result' = out.decoded
           /\ ret' = Ret("receive_image", out.exc, out.valid_frame, -1,
                         out.line, <<>>, buffer)
    /\ UNCHANGED <<socket, data, request_stop_streaming, is_streaming,
                   image_size, pixels_in_image, peer, hist>>

\* self.buffer.extend(self.socket.recv(...)): the next byte of the stream
\* when the scanner's bytes arrive one at a time, else all of them
Recv ==
    /\ peer.stream # <<>>
    /\ ret.op \in {"init", "receive_image"}
    /\ \E k \in {IF peer.bytewise THEN 1 ELSE Len(peer.stream)} :
        /\ buffer' = buffer \o SubSeq(peer.stream, 1, k)
        /\ peer' = [peer EXCEPT !.stream = SubSeq(peer.stream, k + 1, Len(peer.stream))]
        /\ ret' = Ret("recv", "none", TRUE, k, 356, <<>>, buffer)
    /\ UNCHANGED <<socket, data, request_stop_streaming, is_streaming,
                   image_size, pixels_in_image, np_buffer, img, result, hist>>

\* What socket.send may report for a message of n bytes: all of it, one
\* byte less, or (-1) a socket.error
SendResults(n) == {n, n - 1, -1}

\* connect_to_host: the socket it leaves and the exception raised
connect_to_host(sock, reachable) ==
    IF sock = "fresh" /\ reachable
    THEN [exc |-> "none", socket |-> "connected"]
    ELSE [exc |-> "IOError", socket |-> "closed"]

ConnectToHost ==
    \E reachable \in BOOLEAN :
    \E out \in {connect_to_host(socket, reachable)} :
        /\ socket' = out.socket
        /\ hist' = [hist EXCEPT !.connected = @ \/ out.exc = "none"]
        /\ ret' = Ret("connect_to_host", out.exc, out.exc = "none", -1,
                      IF out.exc = "none" THEN 164 ELSE 167, <<>>, <<>>)
        /\ UNCHANGED <<data, request_stop_streaming, is_streaming, image_size,
                       pixels_in_image, buffer, np_buffer, img, result, peer>>

\* disconnect_from_host: the socket it leaves and the bytes left in flight
disconnect_from_host(sock, pending, eof) ==
    LET got == recv(sock, pending, eof, PACKET_SIZE)
    IN  IF got.exc = "none"
        THEN [exc |-> "none", socket |-> "closed", rest |-> got.rest]
        ELSE [exc |-> "none", socket |-> sock, rest |-> pending]

DisconnectFromHost ==
    \E eof \in BOOLEAN :
    \E out \in {disconnect_from_host(socket, peer.stream, eof)} :
        /\ socket' = out.socket
        /\ peer' = [peer EXCEPT !.stream = out.rest]
        /\ ret' = Ret("disconnect_from_host", out.exc, TRUE, -1,
                      IF out.socket = "closed" /\ socket # "closed" THEN 128 ELSE 131,
                      <<>>, <<>>)
        /\ UNCHANGED <<data, request_stop_streaming, is_streaming, image_size,
                       pixels_in_image, buffer, np_buffer, img, result, hist>>

\* request_stop: the flags it leaves
request_stop(streaming, stop_requested) ==
    [is_streaming |-> streaming, request_stop_streaming |-> TRUE]

RequestStop ==
    \E out \in {request_stop(is_streaming, request_stop_streaming)} :
        /\ is_streaming' = out.is_streaming
        /\ request_stop_streaming' = out.request_stop_streaming
        /\ hist' = [hist EXCEPT !.stop_requested = TRUE]
        /\ ret' = Ret("request_stop", "none", TRUE, -1, 116, <<>>, <<>>)
        /\ UNCHANGED <<socket, data, image_size, pixels_in_image, buffer,
                       np_buffer, img, result, peer>>

\* A command and its response: send_command_message, then
\* receive_response_message(expected_size).  What the pair leaves: the
\* exception raised, self.data and the bytes left in flight.
exchange(sock, message, bytes_sent, in_flight, reply, eof, expected_size, old_data) ==
    LET sent == send_command_message(sock, message, bytes_sent)
        got == receive_response_message(sock, Pending(in_flight, reply), eof,
                                        expected_size, old_data)
    IN  IF sent.exc # "none"
        THEN [exc |-> sent.exc, data |-> old_data, rest |-> in_flight]
        ELSE [exc |-> got.exc, data |-> got.data, rest |-> got.rest]

\* stop_streaming: the flags it leaves after the exchange
stop_streaming(exc, streaming, stop_requested) ==
    IF exc # "none"
    THEN [is_streaming |-> streaming, request_stop_streaming |-> stop_requested]
    ELSE [is_streaming |-> FALSE, request_stop_streaming |-> FALSE]

StopStreaming ==
    \E bytes_sent \in SendResults(Len(generate_command_message(stop_message))),
       reply \in AckReplies(stop_message), eof \in BOOLEAN :
    \E ex \in {exchange(socket, stop_message, bytes_sent, peer.stream, reply,
                        eof, EXPECTED_SIZE, data)} :
    \E out \in {stop_streaming(ex.exc, is_streaming, request_stop_streaming)} :
        /\ data' = ex.data
        /\ peer' = [peer EXCEPT !.stream = ex.rest]
        /\ is_streaming' = out.is_streaming
        /\ request_stop_streaming' = out.request_stop_streaming
        /\ hist' = IF ex.exc = "none"
                   THEN [hist EXCEPT !.last = "stop", !.stop_requested = FALSE]
                   ELSE hist
        /\ ret' = Ret("stop_streaming", ex.exc, ex.exc = "none", -1,
                      IF ex.exc = "none" THEN 144 ELSE 141, <<>>, <<>>)
        /\ UNCHANGED <<socket, image_size, pixels_in_image, buffer, np_buffer,
                       img, result>>

\* start_streaming with the stop request cleared, as stop_streaming clears it
start_streaming_clears_request(exc, streaming, stop_requested) ==
    IF exc # "none"
    THEN [is_streaming |-> streaming, request_stop_streaming |-> stop_requested]
    ELSE [is_streaming |-> TRUE, request_stop_streaming |-> FALSE]

\* start_streaming with the flag set before the command is sent
start_streaming_flag_first(exc, streaming, stop_requested) ==
    [is_streaming |-> TRUE, request_stop_streaming |-> stop_requested]

\* start_streaming: the flags it leaves after the exchange
start_streaming(exc, streaming, stop_requested) ==
    IF exc # "none"
    THEN [is_streaming |-> streaming, request_stop_streaming |-> stop_requested]
    ELSE [is_streaming |-> TRUE, request_stop_streaming |-> stop_requested]

StartStreaming ==
    \E bytes_sent \in SendResults(Len(generate_command_message(start_message))),
       reply \in AckReplies(start_message), eof \in BOOLEAN :
    \E ex \in {exchange(socket, start_message, bytes_sent, peer.stream, reply,
                        eof, EXPECTED_SIZE, data)} :
    \E out \in {start_streaming(ex.exc, is_streaming, request_stop_streaming)} :
        /\ data' = ex.data
        /\ peer' = [peer EXCEPT !.stream = ex.rest]
        /\ is_streaming' = out.is_streaming
        /\ request_stop_streaming' = out.request_stop_streaming
        /\ hist' = IF ex.exc = "none" THEN [hist EXCEPT !.last = "start"] ELSE hist
        /\ ret' = Ret("start_streaming", ex.exc, ex.exc = "none", -1,
                      IF ex.exc = "none" THEN 152 ELSE 150, <<>>, <<>>)
        /\ UNCHANGED <<socket, image_size, pixels_in_image, buffer, np_buffer,
                       img, result>>

\* query_win_size: the exchange, then parse_win_size_message on the response
QueryWinSize ==
    \E bytes_sent \in SendResults(Len(generate_command_message(query_win_size_message))),
       reply \in QueryReplies, eof \in BOOLEAN :
    \E ex \in {exchange(socket, query_win_size_message, bytes_sent, peer.stream,
                        reply, eof, WIN_SIZE_EXPECTED_SIZE, data)} :
    \E out \in {IF ex.exc # "none"
                THEN [exc |-> ex.exc, image_size |-> image_size,
                      pixels_in_image |-> pixels_in_image]
                ELSE parse_win_size_message(ex.data, image_size, pixels_in_image)} :
        /\ data' = ex.data
        /\ peer' = [peer EXCEPT !.stream = ex.rest]
        /\ image_size' = out.image_size
        /\ pixels_in_image' = out.pixels_in_image
        /\ hist' = [hist EXCEPT !.queried = @ \/ out.exc = "none"]
        /\ ret' = Ret("query_win_size", out.exc, out.exc = "none", -1,
                      IF ex.exc # "none" THEN 175
                      ELSE IF out.exc = "none" THEN 194 ELSE 190, <<>>, ex.data)
        /\ UNCHANGED <<socket, request_stop_streaming, is_streaming, buffer,
                       np_buffer, img, result>>

----------------------------------------------------------------------------
(* The session: the calls of a client on one BK5000 object *)

Init == Constructed /\ peer = NoPeer

Next ==
    \/ ConnectToHost
    \/ DisconnectFromHost
    \/ RequestStop
    \/ StopStreaming
    \/ StartStreaming
    \/ QueryWinSize

Spec == Init /\ [][Next]_vars

----------------------------------------------------------------------------
(* The codec alone: decode_image and find_first_a_not_preceded_by_b on every
   array of at most MaxCodecLen bytes *)

InitCodec ==
    /\ socket = "fresh"
    /\ data = <<>>
    /\ request_stop_streaming = FALSE
    /\ is_streaming = FALSE
    /\ image_size = <<0, 0>>
    /\ pixels_in_image = 0
    /\ buffer \in SeqsUpTo(CodecBytes, MaxCodecLen)
    /\ np_buffer = <<0, Len(buffer)>>
    /\ img = <<>>
    /\ result = <<>>
    /\ ret = NoCall
    /\ peer = NoPeer
    /\ hist = NoHist

NextCodec == DecodeImage \/ FindFirst

SpecCodec == InitCodec /\ [][NextCodec]_vars

----------------------------------------------------------------------------
(* The scanner alone: receive_image on bounded buffers *)

\* A message that carries the image tag, with bytes before and after it
TaggedBuffers ==
    {pre \o <<SOH>> \o img_msg \o body \o <<EOT>> \o post :
        pre \in {<<>>, <<65>>}, body \in SeqsUpTo(BodyBytes, MaxBody),
        post \in {<<>>, <<HASH>>}}

ScanGeometries == {<<0, 0>>, <<1, 1>>, <<2, 1>>}

InitScan ==
    /\ socket = "connected"
    /\ data = <<>>
    /\ request_stop_streaming = FALSE
    /\ is_streaming = FALSE
    /\ image_size \in ScanGeometries
    /\ pixels_in_image = image_size[1] * image_size[2]
    /\ buffer \in SeqsUpTo(ScanBytes, MaxScanLen) \cup TaggedBuffers
    /\ np_buffer = <<0, 0>>
    /\ img = <<>>
    /\ result = <<>>
    /\ ret = NoCall
    /\ peer = NoPeer
    /\ hist = NoHist

NextScan == ReceiveImage

SpecScan == InitScan /\ [][NextScan]_vars

----------------------------------------------------------------------------
(* A frame on the wire: the scanner sends one image frame, the client
   appends it to the buffer at once or byte by byte and attempts
   receive_image after every append *)

InitFrame ==
    \E f \in Frames, bytewise \in BOOLEAN :
        /\ socket = "connected"
        /\ data = <<>>
        /\ request_stop_streaming = FALSE
        /\ is_streaming = TRUE
        /\ image_size = <<f.width, f.height>>
        /\ pixels_in_image = f.width * f.height
        /\ buffer = <<>>
        /\ np_buffer = <<0, 0>>
        /\ img = <<>>
        /\ result = <<>>
        /\ ret = NoCall
        /\ \E bytes \in {ImageFrame(f.framing.header, f.framing.fixed,
                                     f.framing.digits, f.pixels,
                                     f.framing.trailing)} :
               peer = [stream |-> bytes, frame |-> bytes, pixels |-> f.pixels,
                       width |-> f.width, height |-> f.height,
                       bytewise |-> bytewise]
        /\ hist = NoHist

NextFrame == Recv \/ ReceiveImage

SpecFrame == InitFrame /\ [][NextFrame]_vars

----------------------------------------------------------------------------
(* get_frame on a stream: the scanner sends some bytes and then image frames,
   the client runs the loop of get_frame until it returns or raises *)

\* The most bytes the buffer holds before the transport stops delivering
MaxBuffer == 70

\* self.minimum_size
minimum_size(size) == size[1] * size[2] + 22

\* What the scanner sends before its frames: nothing, bytes that are no
\* message, a message without the image tag, or an image message that
\* carries no pixels or the one pixel 0x01
Prefixes ==
    LET short(pixels) ==
            ImageFrame(<<>>, <<0, 0, 0, 0>>, <<ORD_ZERO>>, pixels, <<0, 0>>)
    IN  {[kind |-> "none", bytes |-> <<>>],
         [kind |-> "garbage", bytes |-> <<65>>],
         [kind |-> "garbage", bytes |-> <<NOT_PRECEDED_BY>>],
         [kind |-> "message", bytes |-> <<SOH, 65, EOT>>],
         [kind |-> "short", bytes |-> short(<<>>)],
         [kind |-> "short", bytes |-> short(<<SOH>>)]}

\* The frames the scanner streams, of one, two or three pixels
StreamFrames ==
    {f \in Frames :
        /\ f.width * f.height <= 3 /\ f.height = 1
        /\ f.framing.header = <<>> /\ f.framing.digits = <<ORD_ZERO + 1>>
        /\ f.framing.fixed = <<0, 0, 0, 0>>
        /\ f.framing.trailing \in {<<0, 0>>, <<0, NOT_PRECEDED_BY>>}
        /\ f.pixels \in {<<10>>, <<SOH>>, <<10, EOT>>, <<ESC, 10>>, <<10, SOH, 10>>}}

InitStream ==
    \E f \in StreamFrames, prefix \in Prefixes, bytewise \in BOOLEAN,
       endless \in BOOLEAN :
        /\ socket = "connected"
        /\ data = <<>>
        /\ request_stop_streaming = FALSE
        /\ is_streaming = TRUE
        /\ image_size = <<f.width, f.height>>
        /\ pixels_in_image = f.width * f.height
        /\ buffer = <<>>
        /\ np_buffer = <<0, 0>>
        /\ img = <<>>
        /\ result = <<>>
        /\ ret = NoCall
        /\ \E bytes \in {ImageFrame(f.framing.header, f.framing.fixed,
                                     f.framing.digits, f.pixels,
                                     f.framing.trailing)} :
               peer = [stream |-> prefix.bytes \o bytes, frame |-> bytes,
                       pixels |-> f.pixels, width |-> f.width,
                       height |-> f.height, bytewise |-> bytewise,
                       prefix |-> prefix.kind, endless |-> endless]
        /\ hist = NoHist

\* self.buffer.extend(self.socket.recv(max_bytes)) at the given line: the
\* bytes that have arrived are the next one or all that the scanner has
\* sent; a scanner that streams without end sends its frame again
Extend(max_bytes, line) ==
    \E arrived \in {IF peer.bytewise THEN PySliceTo(peer.stream, 1)
                    ELSE peer.stream} :
    \E got \in {recv(socket, arrived, FALSE, max_bytes)} :
    \E left \in {got.rest \o PySliceFrom(peer.stream, Len(arrived))} :
        /\ Len(buffer) + Len(got.bytes) <= MaxBuffer
        /\ buffer' = buffer \o got.bytes
        /\ peer' = [peer EXCEPT !.stream = IF left = <<>> /\ peer.endless
                                           THEN peer.frame ELSE left]
        /\ ret' = Ret("recv", got.exc, got.exc = "none", Len(got.bytes), line,
                      <<max_bytes>>, buffer)
        /\ UNCHANGED <<socket, data, request_stop_streaming, is_streaming,
                       image_size, pixels_in_image, np_buffer, img, result, hist>>

\* get_frame, the inner loop: read while the buffer is below minimum_size
GetFrameFill ==
    /\ ret.op \in {"init", "recv"} /\ ret.exc = "none"
    /\ Len(buffer) < minimum_size(image_size)
    /\ Extend(minimum_size(image_size), 356)

\* get_frame is in front of the attempt: the inner loop has ended
AttemptDue ==
    /\ ret.op \in {"init", "recv"} /\ ret.exc = "none"
    /\ Len(buffer) >= minimum_size(image_size)

\* get_frame, the attempt: receive_image once the buffer has minimum_size;
\* True ends the loop, an exception leaves get_frame
GetFrameAttempt == AttemptDue /\ ReceiveImage

\* get_frame, after an attempt that returned False: read one more packet
GetFrameMore ==
    /\ ret.op = "receive_image" /\ ret.exc = "none" /\ ret.val = FALSE
    /\ Extend(PACKET_SIZE, 364)

NextStream == GetFrameFill \/ GetFrameAttempt \/ GetFrameMore

SpecStream == InitStream /\ [][NextStream]_vars

\* Weak fairness of the attempt, WF_vars(GetFrameAttempt), with its enabling
\* condition written out: receive_image always leaves ret changed, so the
\* attempt is enabled exactly when AttemptDue holds
FairAttempt == []<>(~AttemptDue) \/ []<><<GetFrameAttempt>>_vars

\* The loop of get_frame is not suspended while it can take a step
SpecStreamLive ==
    SpecStream /\ WF_vars(GetFrameFill) /\ WF_vars(GetFrameMore) /\ FairAttempt

----------------------------------------------------------------------------
(* receive_response_message alone: every expected_size up to MaxExpected and
   every response of at most MaxResponse bytes in flight *)

\* The largest expected_size drawn
MaxExpected == 3
\* The most bytes the scanner has in flight
MaxResponse == 6

ResponseBytes == {SOH, EOT, 65}

InitResponse ==
    /\ socket \in {"connected", "closed"}
    /\ data = <<>>
    /\ request_stop_streaming = FALSE
    /\ is_streaming = FALSE
    /\ image_size = <<0, 0>>
    /\ pixels_in_image = 0
    /\ buffer = <<>>
    /\ np_buffer = <<0, 0>>
    /\ img = <<>>
    /\ result = <<>>
    /\ ret = NoCall
    /\ \E bytes \in SeqsUpTo(ResponseBytes, MaxResponse) :
           peer = [NoPeer EXCEPT !.stream = bytes]
    /\ hist = NoHist

\* A call of receive_response_message(expected_size)
ReceiveResponseMessage ==
    /\ ret.op = "init"
    /\ \E expected_size \in 0..MaxExpected, eof \in BOOLEAN :
       \E out \in {receive_response_message(socket, peer.stream, eof,
                                            expected_size, data)} :
           /\ data' = out.data
           /\ peer' = [peer EXCEPT !.stream = out.rest]
           /\ ret' = Ret("receive_response_message", out.exc, out.is_ok, -1,
                         IF out.exc = "none" THEN 113
                         ELSE IF out.exc = "IOError" THEN 108 ELSE 103,
                         <<expected_size>>, peer.stream)
    /\ UNCHANGED <<socket, request_stop_streaming, is_streaming, image_size,
                   pixels_in_image, buffer, np_buffer, img, result, hist>>

NextResponse == ReceiveResponseMessage

SpecResponse == InitResponse /\ [][NextResponse]_vars

----------------------------------------------------------------------------
(* Reference definitions the properties are stated with *)

\* The h-row by w-column row-major grid of a pixel sequence
Grid(pixels, w, h) == [r \in 1..h |-> SubSeq(pixels, (r - 1) * w + 1, r * w)]

\* The smallest index i >= start_pos with s[i] = a and (i = start_pos or
\* s[i - 1] # b), or -1
LinearSearch(s, start_pos, a, b) ==
    LET hits == {i \in start_pos..(Len(s) - 1) :
                    At(s, i) = a /\ (i = start_pos \/ At(s, i - 1) # b)}
    IN  IF hits = {} THEN -1 ELSE Min(hits)

\* The start marker of the first message of s under the escape byte 0x1B
StartMarker(s) == LinearSearch(s, 0, SOH, ESC)

\* The end marker of that message, or -1
EndMarker(s) ==
    IF StartMarker(s) < 0 THEN -1 ELSE LinearSearch(s, StartMarker(s), EOT, ESC)

\* The indices after start at which the image tag occurs in s
TagAt(s, start) ==
    {i \in (start + 1)..(Len(s) - Len(img_msg)) :
        SubSeq(s, i + 1, i + Len(img_msg)) = img_msg}

\* The reference decoder: one pass from the left, a 0x1B followed by a
\* flipped control byte gives the control byte, any other byte is kept
RECURSIVE Unescape(_)
Unescape(s) ==
    IF s = <<>> THEN <<>>
    ELSE IF Len(s) >= 2 /\ s[1] = ESC /\ s[2] \in {Flip(SOH), Flip(EOT), Flip(ESC)}
    THEN <<Flip(s[2])>> \o Unescape(SubSeq(s, 3, Len(s)))
    ELSE <<s[1]>> \o Unescape(Tail(s))

----------------------------------------------------------------------------
(* Properties *)

\* C1: when the buffer holds exactly one well-formed image frame,
\* receive_image returns True, img is the height-by-width row-major grid of
\* the pixels the scanner sent, and the buffer is empty afterwards.
C1_FrameRoundTrip ==
    (ret.op = "receive_image" /\ peer.frame # <<>> /\ ret.pre = peer.frame)
        => /\ ret.exc = "none"
           /\ ret.val = TRUE
           /\ img = Grid(peer.pixels, peer.width, peer.height)
           /\ buffer = <<>>

\* C2: with the frame appended one byte at a time and receive_image
\* attempted after every append, every attempt before the end marker has
\* arrived returns False and leaves the buffer as it was, and the attempt
\* made once the end marker has arrived returns True with the image.
C2_FragmentedDelivery ==
    (ret.op = "receive_image" /\ peer.bytewise /\ ret.pre # <<>>)
        => IF peer.stream # <<>>
           THEN ret.exc = "none" /\ ret.val = FALSE /\ ret.line = 305
                /\ buffer = ret.pre
           ELSE ret.exc = "none" /\ ret.val = TRUE
                /\ img = Grid(peer.pixels, peer.width, peer.height)

\* C3: decode_image returns what the reference decoder returns on every
\* byte sequence: each 0x1B followed by 0xFE, 0xFB or 0xE4 is removed and the
\* following byte complemented, every other byte kept in order.
C3_DecodeEqualsReference ==
    ret.op = "decode_image"
        => ret.exc = "none" /\ result = Unescape(ret.pre)

\* C4: receive_image returns True only if a '#' exists after the image tag
\* and before the end marker of the same message, and the payload window
\* computed from it lies between the start and end markers.
C4_FrameOnlyIfValidated ==
    (ret.op = "receive_image" /\ ret.val = TRUE)
        => LET start == StartMarker(ret.pre)
               end == EndMarker(ret.pre)
           IN  \E tag \in TagAt(ret.pre, start) :
               \E hash \in (tag + Len(img_msg))..(end - 1) :
                   /\ At(ret.pre, hash) = HASH
                   /\ hash + 1 < end
                   /\ LET first == hash + 1 + 1 + 4 + At(ret.pre, hash + 1) - ORD_ZERO
                      IN  start < first /\ first <= end - 2

\* C5: when the buffer holds an unescaped start marker and a later unescaped
\* end marker at index e with no image tag strictly between them,
\* receive_image returns False, removes bytes [0, e] and keeps every byte
\* after e in order.
C5_NonImageDiscard ==
    (/\ ret.op = "receive_image"
     /\ EndMarker(ret.pre) > StartMarker(ret.pre)
     /\ \A tag \in TagAt(ret.pre, StartMarker(ret.pre)) :
            tag + Len(img_msg) > EndMarker(ret.pre))
        => /\ ret.exc = "none"
           /\ ret.val = FALSE
           /\ buffer = PySliceFrom(ret.pre, EndMarker(ret.pre) + 1)

\* C6: is_streaming is True exactly when the most recent successful call of
\* start_streaming / stop_streaming was start_streaming, and
\* request_stop_streaming is True exactly when request_stop has been called
\* since the most recent successful stop_streaming (or since construction);
\* request_stop changes no other attribute and start_streaming never changes
\* request_stop_streaming.
C6_FlagsTrackCalls ==
    /\ [](/\ is_streaming = (hist.last = "start")
          /\ request_stop_streaming = hist.stop_requested)
    /\ [][/\ ret'.op = "request_stop"
              => UNCHANGED <<socket, data, is_streaming, image_size,
                             pixels_in_image, buffer, np_buffer, img, result>>
          /\ ret'.op = "start_streaming"
              => UNCHANGED request_stop_streaming]_vars

\* start_streaming has succeeded after a request_stop: both flags are set
C6_Witness ==
    /\ ret.op = "start_streaming" /\ ret.exc = "none"
    /\ hist.stop_requested
    /\ is_streaming /\ request_stop_streaming

\* C7: in every reachable state image_size holds exactly two integers
\* [width, height] and pixels_in_image = width * height, whatever the
\* responses were; the response "DATA:US_WIN_SIZE w,h;" makes image_size [w, h].
C7_GeometryConsistent ==
    /\ Len(image_size) = 2
    /\ pixels_in_image = image_size[1] * image_size[2]
    /\ \A nums \in WinSizes :
        (/\ Len(nums) = 2
         /\ ret.op = "query_win_size" /\ ret.pre = WinSizeText(nums))
            => image_size = nums

\* C8: after disconnect_from_host returns on a session that was connected,
\* the socket has been closed, on every path, and no exception is raised.
C8_DisconnectCloses ==
    (ret.op = "disconnect_from_host" /\ hist.connected)
        => socket = "closed" /\ ret.exc = "none"

\* C9: a window size response whose width or height is zero or negative is
\* answered with an error and does not become the geometry.
C9_PositiveGeometryOnly ==
    \A nums \in WinSizes :
        (/\ Len(nums) = 2 /\ (nums[1] <= 0 \/ nums[2] <= 0)
         /\ ret.op = "query_win_size" /\ ret.pre = WinSizeText(nums))
            => ret.exc # "none" /\ image_size # nums

\* C10, as claimed: is_streaming is True only if an earlier query_win_size
\* has succeeded.
C10_StreamingOnlyAfterQuery == is_streaming => hist.queried

\* C10, amended: is_streaming is True only if connect_to_host and, after it,
\* start_streaming have succeeded; the geometry need not be known.
C10_StreamingOnlyAfterStart ==
    is_streaming => hist.connected /\ hist.last = "start"

\* The session streams with no geometry: no query_win_size has succeeded
C10_Witness ==
    /\ is_streaming /\ ret.op = "start_streaming"
    /\ ~hist.queried /\ image_size = <<0, 0>>

\* The start marker receive_image finds: the first 0x01 under its guard 0x27
msg_start(s) == LinearSearch(s, 0, SOH, NOT_PRECEDED_BY)

\* The end marker receive_image finds after that start marker, or -1
msg_end(s) ==
    IF msg_start(s) < 0 THEN -1
    ELSE LinearSearch(s, msg_start(s), EOT, NOT_PRECEDED_BY)

\* C11: whenever receive_image finds a complete message (a start marker and a
\* later end marker at index e), bytes [0, e] of the buffer have been removed
\* when control leaves receive_image, by return or by exception, so the
\* buffer is strictly shorter than before the call.
C11_ConsumeOnEveryOutcome ==
    (ret.op = "receive_image" /\ msg_end(ret.pre) > msg_start(ret.pre))
        => /\ Len(buffer) = Len(ret.pre) - (msg_end(ret.pre) + 1)
           /\ Len(buffer) < Len(ret.pre)

\* C12: get_frame never terminates with a decode error: an image message
\* that decodes to fewer than pixels_in_image bytes does not end the loop
\* with the reshape's ValueError, it is discarded and the loop goes on.
C12_DecodeErrorsRecovered ==
    ret.op = "receive_image" => ret.exc # "ValueError"

\* C13: the buffer changes only by bytes appended at its tail or by a prefix
\* removed; no byte that stays in the buffer changes its value.
C13_BufferIntegrity ==
    [][\/ \E k \in 0..Len(buffer) : buffer' = SubSeq(buffer, k + 1, Len(buffer))
       \/ /\ Len(buffer') >= Len(buffer)
          /\ SubSeq(buffer', 1, Len(buffer)) = buffer]_vars

\* C14: receive_image takes a 0x01 (0x04) as the start (end) marker exactly
\* when it is at position 0 of the searched view or does not follow the
\* escape byte 0x1B: it reports "no start" exactly when no such 0x01 exists
\* and "incomplete" exactly when no such 0x04 follows the start marker.
C14_MarkersUseEscapeByte ==
    (ret.op = "receive_image" /\ ret.pre # <<>>)
        => /\ (ret.line = 297) <=> (StartMarker(ret.pre) < 0)
           /\ (ret.line = 305) <=> /\ StartMarker(ret.pre) >= 0
                                   /\ EndMarker(ret.pre) <= StartMarker(ret.pre)

\* C15: for every start_pos within the array,
\* find_first_a_not_preceded_by_b(start_pos, a, b) returns what the linear
\* search returns: the smallest index i >= start_pos with array[i] = a and
\* (i = start_pos or array[i - 1] # b), or -1; so never a non-negative index
\* below start_pos, and start_pos itself when array[start_pos] = a.
C15_FindEqualsLinearSearch ==
    (ret.op = "find_first_a_not_preceded_by_b" /\ ret.args[1] < Len(ret.pre))
        => /\ ret.exc = "none"
           /\ ret.found = LinearSearch(ret.pre, ret.args[1], ret.args[2], ret.args[3])

\* C16: find_first_a_not_preceded_by_b and decode_image complete without an
\* error on every array: the search of the empty array yields -1, the empty
\* array decodes to the empty array, and a 0x1B in last place is kept.
C16_CodecTotal ==
    /\ ret.op = "find_first_a_not_preceded_by_b"
        => ret.exc = "none" /\ (ret.pre = <<>> => ret.found = -1)
    /\ ret.op = "decode_image"
        => /\ ret.exc = "none"
           /\ ret.pre = <<>> => result = <<>>
           /\ (ret.pre # <<>> /\ ret.pre[Len(ret.pre)] = ESC)
                  => (result # <<>> /\ result[Len(result)] = ESC)

\* C18, as claimed: the window handed to decode_image starts at index
\* p + 1 + 4 + d, where p is the index of '#' and d the digit at p + 1.
C18_WindowFromHashPlus5 ==
    (ret.op = "receive_image" /\ ret.val = TRUE /\ peer.frame # <<>>)
        => LET p == Find(ret.pre, <<HASH>>, 0)
               d == At(ret.pre, p + 1) - ORD_ZERO
           IN  np_buffer[1] = p + 1 + 4 + d

\* C18, amended: for an image frame with '#' at index p, the digit d at
\* index p + 1 and the end marker at index e, the bytes handed to
\* decode_image are those from index p + 2 + 4 + d, which is 1 + 4 + d bytes
\* after the digit at p + 1, up to and including index e - 2: the escaped
\* pixels and the first trailing byte.
C18_PayloadWindow ==
    (ret.op = "receive_image" /\ ret.val = TRUE /\ peer.frame # <<>>)
        => LET p == Find(ret.pre, <<HASH>>, 0)
               d == At(ret.pre, p + 1) - ORD_ZERO
               e == msg_end(ret.pre)
           IN  /\ np_buffer = <<p + 2 + 4 + d, e - 1>>
               /\ View(ret.pre, np_buffer)
                      = SubSeq(ret.pre, p + 2 + 4 + d + 1, e - 2 + 1)
               /\ View(ret.pre, np_buffer)
                      = Append(Escape(peer.pixels), At(ret.pre, e - 2))

\* A 2x2 frame with a header byte before '#' and one length digit has been
\* decoded
C18_Witness ==
    /\ ret.op = "receive_image" /\ ret.val = TRUE /\ peer.frame # <<>>
    /\ Find(ret.pre, <<HASH>>, 0) > Len(img_msg) + 1
    /\ At(ret.pre, Find(ret.pre, <<HASH>>, 0) + 1) = ORD_ZERO + 1
    /\ Len(peer.pixels) = 4 /\ Len(img) = 2

\* C19: when the buffer holds no 0x01 that is at position 0 or does not
\* follow the guard byte, receive_image returns False and leaves the buffer
\* empty; when it holds one, this step removes nothing: the start marker is
\* found, and a buffer without an end marker is left as it was.
C19_GarbageDiscard ==
    ret.op = "receive_image"
        => /\ msg_start(ret.pre) < 0
                => ret.exc = "none" /\ ret.val = FALSE /\ buffer = <<>>
           /\ msg_start(ret.pre) >= 0 => ret.line # 297
           /\ (msg_start(ret.pre) >= 0 /\ msg_end(ret.pre) <= msg_start(ret.pre))
                => ret.exc = "none" /\ ret.val = FALSE /\ buffer = ret.pre

\* C20: receive_response_message never raises the size-mismatch IOError:
\* whenever the read returns, at most expected_size + 2 bytes were taken,
\* data is those bytes without the first and the last, its length is at most
\* expected_size, and the call returns True; this for every expected_size
\* that is a size (0 or more).
C20_SizeMismatchUnreachable ==
    ret.op = "receive_response_message"
        => /\ ret.exc # "IOError"
           /\ ret.exc = "none"
                => /\ ret.val = TRUE
                   /\ Len(ret.pre) - Len(peer.stream) <= ret.args[1] + 2
                   /\ Len(data) <= ret.args[1]
                   /\ data = PySlice(PySliceTo(ret.pre, ret.args[1] + 2), 1, -1)

\* More bytes were in flight than expected_size + 2: the read was cut to
\* expected_size + 2 bytes and data has exactly expected_size bytes
C20_Witness ==
    /\ ret.op = "receive_response_message" /\ ret.exc = "none" /\ ret.val = TRUE
    /\ Len(ret.pre) > ret.args[1] + 2
    /\ ret.args[1] > 0 /\ Len(data) = ret.args[1]
    /\ peer.stream # <<>>

=============================================================================
